---- MODULE Spec2Model ----
(***************************************************************************)
(* Model of the local-llm RAG scripts.                                     *)
(*                                                                         *)
(*   ingest.py  a batch script: load the hash ledger, make sure the Qdrant *)
(*              collection exists, walk DATA_DIR, hash every chunk, send   *)
(*              the unseen chunks to the vector store, dump the ledger.    *)
(*   api.py     a FastAPI service with one endpoint, GET /query.           *)
(*                                                                         *)
(* A source file is represented by the list of chunk texts the splitter    *)
(* yields for it; the vector store is a bag of records (Qdrant keys its    *)
(* points by generated ids, so equal records can coexist).                 *)
(***************************************************************************)
EXTENDS Bags, FiniteSets, Integers, Sequences, TLC

VARIABLES
    data_dir,    \* TRUE when the directory DATA_DIR exists
    data,        \* DATA_DIR: filename -> directory entry (all absent without the directory)
    disk,        \* the file at HASH_DB_PATH
    collection,  \* TRUE when the Qdrant collection "documents" exists
    records,     \* bag of the records of the collection
    pc,          \* position of the ingestion script
    cause,       \* why the last ingestion run died ("none" while none did)
    hash_db,     \* ingest.py hash_db: insertion-ordered dict, <<hash, filename>> pairs
    all_docs,    \* ingest.py all_docs
    order,       \* the listing os.listdir(DATA_DIR) returned for this run
    fi,          \* index in order of the file the loop is at
    chunks,      \* ingest.py chunks (of the current file)
    ci,          \* index in chunks of the chunk the inner loop is at
    new_chunks,  \* ingest.py new_chunks (of the current file)
    ingested,    \* the count the run printed (-1: nothing printed yet)
    disk0,       \* history: the ledger file as it was when the run started
    repeat,      \* history: the run follows a successful run with no file change between
    unchanged,   \* history: DATA_DIR has not changed since the last run started
    runs,        \* number of ingestion runs started
    edits,       \* number of changes made to DATA_DIR
    last         \* the HTTP exchange of the query service that is followed (its latest)

ingestVars == <<pc, cause, hash_db, all_docs, order, fi, chunks, ci, new_chunks,
                ingested, disk0, repeat, unchanged, runs>>
vars == <<data_dir, data, edits, disk, collection, records, ingestVars, last>>

----------------------------------------------------------------------------
(* Bounds of the model *)

MaxRuns == 2        \* ingestion runs
MaxEdits == 2       \* changes to DATA_DIR

(* Program constants *)

RetrievalK == 3     \* search_kwargs={"k": 3}

Filenames == {"a.txt", "b.txt"}
Texts == {"hello world", "bonjour"}
Questions == {"", "hello"}
Answers == {"Bonjour !"}

\* what a source file can hold, as the chunk texts the splitter yields for it:
\* an empty file, one chunk, two different chunks, the same chunk twice
FileContents ==
    {<<>>, <<"hello world">>, <<"bonjour">>, <<"hello world", "bonjour">>,
     <<"bonjour", "bonjour">>}

Absent == [kind |-> "absent", content |-> <<>>]
Dir == [kind |-> "dir", content |-> <<>>]
File(content) == [kind |-> "file", content |-> content]
Entries == {Absent, Dir} \cup {File(c) : c \in FileContents}

----------------------------------------------------------------------------
(* Pure helpers *)

\* md5(text.encode("utf-8")).hexdigest()
MD5(text) ==
    CASE text = "hello world" -> "5eb63bbbe01eeed093cb22bb8f5acdc3"
      [] text = "bonjour" -> "f02368945726d5fc2a14eb576f7276c0"
      [] text = "" -> "d41d8cd98f00b204e9800998ecf8427e"

\* Python dict as the sequence of its items in insertion order.
DictKeys(d) == {d[i][1] : i \in DOMAIN d}
DictHas(d, k) == k \in DictKeys(d)
DictIndex(d, k) == CHOOSE i \in DOMAIN d : d[i][1] = k
DictGet(d, k) == d[DictIndex(d, k)][2]
\* d[k] = v: a present key keeps its place and takes the new value
DictSet(d, k, v) ==
    IF DictHas(d, k)
    THEN [d EXCEPT ![DictIndex(d, k)] = <<k, v>>]
    ELSE Append(d, <<k, v>>)

\* json.dump(hash_db, f): the items in order, as the file's complete content
JsonDump(d) == [exists |-> TRUE, entries |-> d, complete |-> TRUE]

\* mutant of JsonLoad: the ledger file is not read back
JsonLoad_ignored(file) == <<>>

\* json.load(f) of a complete file: the items inserted one by one
RECURSIVE JsonLoadItems(_, _)
JsonLoadItems(items, d) ==
    IF items = <<>> THEN d
    ELSE JsonLoadItems(Tail(items), DictSet(d, Head(items)[1], Head(items)[2]))
JsonLoad(file) == JsonLoadItems(file.entries, <<>>)

NoFile == [exists |-> FALSE, entries |-> <<>>, complete |-> FALSE]
\* open(HASH_DB_PATH, "w"): the file exists and is empty
Truncated == [exists |-> TRUE, entries |-> <<>>, complete |-> FALSE]

\* TextLoader(path).load(), metadata["source"] = filename, split_documents(docs)
RECURSIVE SplitDocuments(_, _)
SplitDocuments(content, filename) ==
    IF content = <<>> THEN <<>>
    ELSE <<[page_content |-> Head(content), source |-> filename]>>
         \o SplitDocuments(Tail(content), filename)

RECURSIVE SeqToBag(_)
SeqToBag(s) == IF s = <<>> THEN EmptyBag ELSE SetToBag({Head(s)}) (+) SeqToBag(Tail(s))

Prefix(s, n) == SubSeq(s, 1, n)

RECURSIVE Perms(_)
Perms(S) ==
    IF S = {} THEN {<<>>}
    ELSE UNION {{<<x>> \o p : p \in Perms(S \ {x})} : x \in S}

Ended == {"idle", "done", "failed"}

----------------------------------------------------------------------------
\* everything but DATA_DIR before the first run: no ledger file, no collection,
\* no script running, no request made
InitRest ==
    /\ disk = NoFile
    /\ collection = FALSE
    /\ records = EmptyBag
    /\ pc = "idle"
    /\ cause = "none"
    /\ hash_db = <<>>
    /\ all_docs = <<>>
    /\ order = <<>>
    /\ fi = 0
    /\ chunks = <<>>
    /\ ci = 0
    /\ new_chunks = <<>>
    /\ ingested = -1
    /\ disk0 = NoFile
    /\ repeat = FALSE
    /\ unchanged = TRUE
    /\ runs = 0
    /\ edits = 0
    /\ last = [has_q |-> FALSE, q |-> "", status |-> 0, calls |-> <<>>,
               retrieval |-> "skipped", generation |-> "skipped",
               context |-> EmptyBag, prompt |-> <<>>, body |-> <<>>]

\* a fresh deployment: DATA_DIR missing or empty
Init ==
    /\ data_dir \in BOOLEAN
    /\ data = [f \in Filenames |-> Absent]
    /\ InitRest

\* a fresh deployment over a DATA_DIR that is missing or holds any files
InitAnyDir ==
    /\ \/ data_dir = FALSE /\ data = [f \in Filenames |-> Absent]
       \/ data_dir = TRUE /\ data \in [Filenames -> Entries]
    /\ InitRest

----------------------------------------------------------------------------
(* ingest.py *)

\* the script's process ends (normally or on an uncaught exception): its memory is gone
ProcessExit ==
    /\ hash_db' = <<>>
    /\ all_docs' = <<>>
    /\ order' = <<>>
    /\ fi' = 0
    /\ chunks' = <<>>
    /\ ci' = 0
    /\ new_chunks' = <<>>

\* lines 20-25, the ledger file absent or holding complete JSON
LoadLedger ==
    /\ pc \in Ended
    /\ runs < MaxRuns
    /\ disk.exists => disk.complete
    /\ hash_db' = IF disk.exists THEN JsonLoad(disk) ELSE <<>>
    /\ pc' = "collection"
    /\ cause' = "none"
    /\ all_docs' = <<>>
    /\ order' = <<>>
    /\ fi' = 0
    /\ chunks' = <<>>
    /\ ci' = 0
    /\ new_chunks' = <<>>
    /\ ingested' = -1
    /\ disk0' = disk
    /\ repeat' = (pc = "done" /\ unchanged)
    /\ unchanged' = TRUE
    /\ runs' = runs + 1
    /\ UNCHANGED <<data_dir, data, edits, disk, collection, records, last>>

\* line 23, json.load raising on a file that is not complete JSON
LoadLedgerFail ==
    /\ pc \in Ended
    /\ runs < MaxRuns
    /\ disk.exists /\ ~disk.complete
    /\ pc' = "failed"
    /\ cause' = "ledger"
    /\ ProcessExit
    /\ ingested' = -1
    /\ disk0' = disk
    /\ repeat' = (pc = "done" /\ unchanged)
    /\ unchanged' = TRUE
    /\ runs' = runs + 1
    /\ UNCHANGED <<data_dir, data, edits, disk, collection, records, last>>

\* mutant of InitCollection: recreate_collection without the existence check
InitCollection_recreate ==
    /\ pc = "collection"
    /\ collection' = TRUE
    /\ records' = EmptyBag
    /\ pc' = "listdir"
    /\ UNCHANGED <<data_dir, data, edits, disk, cause, hash_db, all_docs, order, fi, chunks, ci,
                   new_chunks, ingested, disk0, repeat, unchanged, runs, last>>

\* lines 28-36: recreate_collection only when no collection of that name exists
InitCollection ==
    /\ pc = "collection"
    /\ IF collection
       THEN UNCHANGED <<collection, records>>
       ELSE collection' = TRUE /\ records' = EmptyBag
    /\ pc' = "listdir"
    /\ UNCHANGED <<data_dir, data, edits, disk, cause, hash_db, all_docs, order, fi, chunks, ci,
                   new_chunks, ingested, disk0, repeat, unchanged, runs, last>>

\* lines 28-31: the Qdrant server cannot be reached, get_collections raises
QdrantUnreachable ==
    /\ pc = "collection"
    /\ pc' = "failed"
    /\ cause' = "qdrant"
    /\ ProcessExit
    /\ UNCHANGED <<data_dir, data, edits, disk, collection, records, ingested, disk0, repeat, unchanged, runs, last>>

\* line 56: os.listdir returns the entries in an order the file system picks
ListDir ==
    /\ pc = "listdir"
    /\ data_dir
    /\ order' \in Perms({f \in Filenames : data[f].kind # "absent"})
    /\ fi' = 1
    /\ pc' = "file"
    /\ UNCHANGED <<data_dir, data, edits, disk, collection, records, cause, hash_db, all_docs,
                   chunks, ci, new_chunks, ingested, disk0, repeat, unchanged,
                   runs, last>>

\* line 56: DATA_DIR does not exist, os.listdir raises FileNotFoundError
ListDirFail ==
    /\ pc = "listdir"
    /\ ~data_dir
    /\ pc' = "failed"
    /\ cause' = "listdir"
    /\ ProcessExit
    /\ UNCHANGED <<data_dir, data, edits, disk, collection, records, ingested, disk0,
                   repeat, unchanged, runs, last>>

\* lines 57-59: an entry that is not a regular file is skipped
SkipNonFile ==
    /\ pc = "file"
    /\ fi <= Len(order)
    /\ data[order[fi]].kind # "file"
    /\ fi' = fi + 1
    /\ UNCHANGED <<data_dir, data, edits, disk, collection, records, pc, cause, hash_db, all_docs,
                   order, chunks, ci, new_chunks, ingested, disk0, repeat,
                   unchanged, runs, last>>

\* lines 61-73: load the file, tag its source, split it, start the hash check
LoadFile ==
    /\ pc = "file"
    /\ fi <= Len(order)
    /\ data[order[fi]].kind = "file"
    /\ chunks' = SplitDocuments(data[order[fi]].content, order[fi])
    /\ new_chunks' = <<>>
    /\ ci' = 1
    /\ pc' = "chunk"
    /\ UNCHANGED <<data_dir, data, edits, disk, collection, records, cause, hash_db, all_docs,
                   order, fi, ingested, disk0, repeat, unchanged, runs, last>>

\* line 62: loader.load() raises (unreadable or undecodable file); nothing catches it
LoadFileFail ==
    /\ pc = "file"
    /\ fi <= Len(order)
    /\ data[order[fi]].kind = "file"
    /\ pc' = "failed"
    /\ cause' = "read"
    /\ ProcessExit
    /\ UNCHANGED <<data_dir, data, edits, disk, collection, records, ingested, disk0, repeat, unchanged, runs, last>>

\* mutant of CheckChunk: the ledger assignment moved out of the if
CheckChunk_overwrite ==
    /\ pc = "chunk"
    /\ ci <= Len(chunks)
    /\ LET c == chunks[ci]
           chunk_hash == MD5(c.page_content)
       IN /\ hash_db' = DictSet(hash_db, chunk_hash, order[fi])
          /\ new_chunks' = IF ~DictHas(hash_db, chunk_hash)
                            THEN Append(new_chunks, c)
                            ELSE new_chunks
    /\ ci' = ci + 1
    /\ UNCHANGED <<data_dir, data, edits, disk, collection, records, pc, cause, all_docs, order, fi,
                   chunks, ingested, disk0, repeat, unchanged, runs, last>>

\* lines 74-78: one iteration of the incremental hash check
CheckChunk ==
    /\ pc = "chunk"
    /\ ci <= Len(chunks)
    /\ LET c == chunks[ci]
           chunk_hash == MD5(c.page_content)
       IN IF ~DictHas(hash_db, chunk_hash)
          THEN /\ hash_db' = DictSet(hash_db, chunk_hash, order[fi])
               /\ new_chunks' = Append(new_chunks, c)
          ELSE UNCHANGED <<hash_db, new_chunks>>
    /\ ci' = ci + 1
    /\ UNCHANGED <<data_dir, data, edits, disk, collection, records, pc, cause, all_docs, order, fi,
                   chunks, ingested, disk0, repeat, unchanged, runs, last>>

\* line 80, and back to the head of the file loop
ExtendDocs ==
    /\ pc = "chunk"
    /\ ci > Len(chunks)
    /\ all_docs' = all_docs \o new_chunks
    /\ fi' = fi + 1
    /\ pc' = "file"
    /\ UNCHANGED <<data_dir, data, edits, disk, collection, records, cause, hash_db, order, chunks,
                   ci, new_chunks, ingested, disk0, repeat, unchanged, runs, last>>

\* lines 83-87: one add_documents call for the whole batch, or none
AddDocuments ==
    /\ pc = "file"
    /\ fi > Len(order)
    /\ IF all_docs # <<>>
       THEN /\ records' = records (+) SeqToBag(all_docs)
            /\ ingested' = Len(all_docs)
       ELSE /\ UNCHANGED records
            /\ ingested' = 0
    /\ pc' = "save"
    /\ UNCHANGED <<data_dir, data, edits, disk, collection, cause, hash_db, all_docs, order, fi,
                   chunks, ci, new_chunks, disk0, repeat, unchanged, runs, last>>

\* mutant of AddDocumentsFail: the exception is caught and the script goes on to save
AddDocumentsFail_swallowed ==
    /\ pc = "file"
    /\ fi > Len(order)
    /\ all_docs # <<>>
    /\ \E k \in 0..Len(all_docs) :
          records' = records (+) SeqToBag(Prefix(all_docs, k))
    /\ pc' = "save"
    /\ cause' = "store"
    /\ UNCHANGED <<data_dir, data, edits, disk, collection, hash_db, all_docs, order, fi, chunks,
                   ci, new_chunks, ingested, disk0, repeat, unchanged, runs, last>>

\* line 84: add_documents raises after the store took the first k chunks (all of
\* them when the failure comes after the last write)
AddDocumentsFail ==
    /\ pc = "file"
    /\ fi > Len(order)
    /\ all_docs # <<>>
    /\ \E k \in 0..Len(all_docs) :
          records' = records (+) SeqToBag(Prefix(all_docs, k))
    /\ pc' = "failed"
    /\ cause' = "store"
    /\ ProcessExit
    /\ UNCHANGED <<data_dir, data, edits, disk, collection, ingested, disk0, repeat, unchanged, runs, last>>

\* line 90: open(HASH_DB_PATH, "w") truncates the ledger file
OpenLedger ==
    /\ pc = "save"
    /\ disk' = Truncated
    /\ pc' = "dump"
    /\ UNCHANGED <<data_dir, data, edits, collection, records, cause, hash_db, all_docs, order, fi,
                   chunks, ci, new_chunks, ingested, disk0, repeat, unchanged,
                   runs, last>>

\* lines 91-93: json.dump writes the whole dict, the file is closed
DumpLedger ==
    /\ pc = "dump"
    /\ disk' = JsonDump(hash_db)
    /\ pc' = "done"
    /\ ProcessExit
    /\ UNCHANGED <<data_dir, data, edits, collection, records, cause, ingested, disk0, repeat,
                   unchanged, runs, last>>

\* line 91: the write stops (disk full, process killed) after k items
DumpCrash ==
    /\ pc = "dump"
    /\ \E k \in 0..Len(hash_db) :
          disk' = [exists |-> TRUE, entries |-> Prefix(hash_db, k), complete |-> FALSE]
    /\ pc' = "failed"
    /\ cause' = "dump"
    /\ ProcessExit
    /\ UNCHANGED <<data_dir, data, edits, collection, records, ingested, disk0, repeat, unchanged, runs, last>>

\* DATA_DIR is created (the script never creates it)
MakeDataDir ==
    /\ pc \in Ended
    /\ ~data_dir
    /\ data_dir' = TRUE
    /\ unchanged' = FALSE
    /\ UNCHANGED <<data, edits, disk, collection, records, pc, cause, hash_db, all_docs,
                   order, fi, chunks, ci, new_chunks, ingested, disk0, repeat, runs,
                   last>>

\* DATA_DIR changes between two runs: a file written, deleted, or a directory made
EditDir ==
    /\ pc \in Ended
    /\ data_dir
    /\ edits < MaxEdits
    /\ edits' = edits + 1
    /\ \E f \in Filenames, e \in Entries :
          /\ e # data[f]
          /\ data' = [data EXCEPT ![f] = e]
    /\ unchanged' = FALSE
    /\ UNCHANGED <<data_dir, disk, collection, records, pc, cause, hash_db, all_docs,
                   order, fi, chunks, ci, new_chunks, ingested, disk0, repeat, runs,
                   last>>

----------------------------------------------------------------------------
(* api.py *)

Requests == {[has_q |-> FALSE, q |-> ""]} \cup {[has_q |-> TRUE, q |-> x] : x \in Questions}

LlmError == "<error>"

Min(a, b) == IF a < b THEN a ELSE b

\* line 23: similarity search, the k nearest records (all of them when fewer);
\* which ones are nearest is the embedding model's business
Retrieve(recs) ==
    IF BagCardinality(recs) <= RetrievalK
    THEN {recs}
    ELSE {b \in SubBag(recs) : BagCardinality(b) = RetrievalK}

\* lines 30-32: the template with its two placeholders filled
Prompt(context, question) ==
    <<"Voici des extraits pertinents :\n", context, "\n\nQuestion : ", question,
      "\nRéponse :">>

\* mutant of query_api_retrieve: the context of the previous exchange is kept
\* and added to
query_api_retrieve_memory(req, ctx, retr_ok) ==
    IF ~req.has_q
    THEN [has_q |-> FALSE, q |-> "", status |-> 422, calls |-> <<>>,
          retrieval |-> "skipped", generation |-> "skipped",
          context |-> EmptyBag, prompt |-> <<>>, body |-> <<"detail", "Field required">>]
    ELSE IF ~retr_ok
    THEN [has_q |-> TRUE, q |-> req.q, status |-> 500, calls |-> <<"retriever">>,
          retrieval |-> "error", generation |-> "skipped",
          context |-> EmptyBag, prompt |-> <<>>, body |-> <<"Internal Server Error">>]
    ELSE [has_q |-> TRUE, q |-> req.q, status |-> 0, calls |-> <<"retriever">>,
          retrieval |-> "ok", generation |-> "pending",
          context |-> last.context (+) ctx,
          prompt |-> Prompt(last.context (+) ctx, req.q), body |-> <<>>]

\* mutant of query_api_retrieve: an empty search result is answered 404 without
\* generation
query_api_retrieve_nocontext(req, ctx, retr_ok) ==
    IF ~req.has_q
    THEN [has_q |-> FALSE, q |-> "", status |-> 422, calls |-> <<>>,
          retrieval |-> "skipped", generation |-> "skipped",
          context |-> EmptyBag, prompt |-> <<>>, body |-> <<"detail", "Field required">>]
    ELSE IF ~retr_ok
    THEN [has_q |-> TRUE, q |-> req.q, status |-> 500, calls |-> <<"retriever">>,
          retrieval |-> "error", generation |-> "skipped",
          context |-> EmptyBag, prompt |-> <<>>, body |-> <<"Internal Server Error">>]
    ELSE IF ctx = EmptyBag
    THEN [has_q |-> TRUE, q |-> req.q, status |-> 404, calls |-> <<"retriever">>,
          retrieval |-> "ok", generation |-> "skipped",
          context |-> ctx, prompt |-> <<>>, body |-> <<"detail", "Not Found">>]
    ELSE [has_q |-> TRUE, q |-> req.q, status |-> 0, calls |-> <<"retriever">>,
          retrieval |-> "ok", generation |-> "pending",
          context |-> ctx, prompt |-> Prompt(ctx, req.q), body |-> <<>>]

\* lines 35-37 and 42-44, the exchange up to the prompt: FastAPI's validation of
\* q (required, any string), then the first two stages of rag_chain.invoke(q),
\* the retriever (an exception is a 500) and the prompt; the handler then blocks
\* on the language model
query_api_retrieve(req, ctx, retr_ok) ==
    IF ~req.has_q
    THEN [has_q |-> FALSE, q |-> "", status |-> 422, calls |-> <<>>,
          retrieval |-> "skipped", generation |-> "skipped",
          context |-> EmptyBag, prompt |-> <<>>, body |-> <<"detail", "Field required">>]
    ELSE IF ~retr_ok
    THEN [has_q |-> TRUE, q |-> req.q, status |-> 500, calls |-> <<"retriever">>,
          retrieval |-> "error", generation |-> "skipped",
          context |-> EmptyBag, prompt |-> <<>>, body |-> <<"Internal Server Error">>]
    ELSE [has_q |-> TRUE, q |-> req.q, status |-> 0, calls |-> <<"retriever">>,
          retrieval |-> "ok", generation |-> "pending",
          context |-> ctx, prompt |-> Prompt(ctx, req.q), body |-> <<>>]

\* lines 38 and 44-45, the rest of the exchange x: the language model answers
\* and the handler returns question and response, or it raises (a 500)
query_api_generate(x, llm_out) ==
    IF llm_out = LlmError
    THEN [x EXCEPT !.status = 500, !.calls = Append(x.calls, "llm"),
                   !.generation = "error", !.body = <<"Internal Server Error">>]
    ELSE [x EXCEPT !.status = 200, !.calls = Append(x.calls, "llm"),
                   !.generation = "ok",
                   !.body = <<"question", x.q, "response", llm_out>>]

\* what the search can do to a request: nothing when FastAPI rejects it, else it
\* fails (always so without a collection) or returns the nearest records
Outcomes(req) ==
    IF ~req.has_q
    THEN {[ctx |-> EmptyBag, retr_ok |-> FALSE]}
    ELSE {[ctx |-> EmptyBag, retr_ok |-> FALSE]}
         \cup (IF collection
               THEN [ctx : Retrieve(records), retr_ok : {TRUE}]
               ELSE {})

\* a GET /query request arrives and is taken up to the call of the language
\* model; last follows this request from now on
QueryRetrieve ==
    /\ \E req \in Requests :
          \E o \in Outcomes(req) :
             last' = query_api_retrieve(req, o.ctx, o.retr_ok)
    /\ UNCHANGED <<data_dir, data, edits, disk, collection, records, ingestVars>>

\* the language model returns or fails, the response is sent
QueryGenerate ==
    /\ last.generation = "pending"
    /\ \E llm_out \in Answers \cup {LlmError} :
          last' = query_api_generate(last, llm_out)
    /\ UNCHANGED <<data_dir, data, edits, disk, collection, records, ingestVars>>

----------------------------------------------------------------------------
\* the steps of the ingestion script
RunStep ==
    \/ LoadLedger
    \/ LoadLedgerFail
    \/ InitCollection
    \/ QdrantUnreachable
    \/ ListDir
    \/ ListDirFail
    \/ SkipNonFile
    \/ LoadFile
    \/ LoadFileFail
    \/ CheckChunk
    \/ ExtendDocs
    \/ AddDocuments
    \/ AddDocumentsFail
    \/ OpenLedger
    \/ DumpLedger
    \/ DumpCrash

\* the changes made to DATA_DIR between runs
DirStep ==
    \/ MakeDataDir
    \/ EditDir

\* the steps of the query service
QueryStep ==
    \/ QueryRetrieve
    \/ QueryGenerate

Next == RunStep \/ DirStep \/ QueryStep

\* the whole system: ingestion runs, directory changes, queries
Spec == Init /\ [][Next]_vars

\* the ingestion side alone: runs and directory changes
NextIngest == RunStep \/ DirStep
SpecIngest == Init /\ [][NextIngest]_vars

\* the store side: ingestion runs over a directory that stays as it is, and the
\* query service reading the store they fill
NextStore == RunStep \/ QueryStep
SpecStore == InitAnyDir /\ [][NextStore]_vars

----------------------------------------------------------------------------
(* Properties *)

LedgerKeys(file) == {file.entries[i][1] : i \in DOMAIN file.entries}
StoredTexts == {r.page_content : r \in BagToSet(records)}
FileTexts(f) == {data[f].content[i] : i \in DOMAIN data[f].content}
RegularFiles == {f \in Filenames : data[f].kind = "file"}

\* C1. Ledger integrity: after any sequence of ingestion runs, successful or
\* failed (a store write failing mid-batch included), every hash that is a key
\* of the ledger file belongs to a chunk text that the vector store holds.
C1_LedgerIntegrity ==
    \A h \in LedgerKeys(disk) : \E t \in StoredTexts : MD5(t) = h

\* a run died in add_documents after the store took part of the batch: one
\* chunk is stored, another of the same directory is not, neither is in the ledger
C1_Witness ==
    /\ pc = "failed"
    /\ cause = "store"
    /\ \E t \in StoredTexts : MD5(t) \notin LedgerKeys(disk)
    /\ \E f \in RegularFiles : \E t \in FileTexts(f) :
          t \notin StoredTexts /\ MD5(t) \notin LedgerKeys(disk)

\* C2. Idempotence: a run that follows a successful run with no file change in
\* between marks no chunk as new, does not call add_documents (it prints a
\* count of 0 and cannot die in the store write), and ends with the ledger file
\* as it found it.
C2_Idempotence ==
    repeat =>
        /\ all_docs = <<>>
        /\ pc = "chunk" => new_chunks = <<>>
        /\ ingested \in {-1, 0}
        /\ cause # "store"
        /\ pc \in {"save", "dump", "done"} => ingested = 0
        /\ pc = "done" => disk = disk0

\* the second of two runs over an unchanged directory with chunks in it is done
C2_Witness ==
    /\ repeat
    /\ pc = "done"
    /\ disk.entries # <<>>
    /\ \E f \in RegularFiles : FileTexts(f) # {}

\* C3. The ledger file is never left partially written: at every point of a
\* run it holds complete JSON, and it differs from the version the run found
\* only once the run has succeeded.
C3_NoPartialLedger ==
    /\ disk.exists => disk.complete
    /\ disk # disk0 => pc = "done"

\* C4. A read error on one source file aborts that file only: when the run
\* in which it happened has ended, the chunks of every other file of the
\* directory are stored and recorded in the ledger.
C4_ReadErrorSkipsFile ==
    (pc \in Ended /\ cause = "read" /\ unchanged) =>
        \E bad \in RegularFiles :
           \A f \in RegularFiles \ {bad} : \A t \in FileTexts(f) :
              MD5(t) \in LedgerKeys(disk) /\ t \in StoredTexts

\* C5. A request whose q is missing or empty is rejected with a client error
\* and neither the retriever nor the language model is invoked for it.
C5_EmptyQueryRejected ==
    (~last.has_q \/ last.q = "") =>
        /\ last.status \in {0} \cup 400..499
        /\ last.calls = <<>>

\* the chunks of the first n entries of the listing, in processing order
RECURSIVE ChunksOfFiles(_)
ChunksOfFiles(n) ==
    IF n = 0 THEN <<>>
    ELSE ChunksOfFiles(n - 1)
         \o (IF data[order[n]].kind = "file"
             THEN SplitDocuments(data[order[n]].content, order[n])
             ELSE <<>>)

\* the chunks the hash check has gone through so far in this run
Processed ==
    IF pc = "chunk"
    THEN ChunksOfFiles(fi - 1) \o Prefix(chunks, ci - 1)
    ELSE ChunksOfFiles(fi - 1)

\* the chunks marked for ingestion so far in this run
Marked == IF pc = "chunk" THEN all_docs \o new_chunks ELSE all_docs

\* the ledger as the run loaded it
Loaded == IF disk0.exists THEN JsonLoad(disk0) ELSE <<>>

\* C6. One entry per hash, attributed to the chunk processed first: while a
\* run is hashing and saving, the ledger has one entry per key; a processed
\* chunk whose hash was loaded keeps the loaded filename and is not marked; a
\* processed chunk whose hash was not loaded is attributed to the file of the
\* first processed chunk with that text, and that chunk alone is marked.
C6_FirstProcessedWins ==
    /\ disk.complete => Cardinality(LedgerKeys(disk)) = Len(disk.entries)
    /\ pc \in {"file", "chunk", "save", "dump"} =>
          /\ Cardinality(DictKeys(hash_db)) = Len(hash_db)
          /\ \A j \in DOMAIN Processed :
                LET t == Processed[j].page_content
                    h == MD5(t)
                    same == {i \in DOMAIN Processed : Processed[i].page_content = t}
                    first == CHOOSE i \in same : \A k \in same : i <= k
                    marked == {i \in DOMAIN Marked : Marked[i].page_content = t}
                IN /\ DictHas(hash_db, h)
                   /\ DictHas(Loaded, h) =>
                         /\ DictGet(hash_db, h) = DictGet(Loaded, h)
                         /\ marked = {}
                   /\ ~DictHas(Loaded, h) =>
                         /\ DictGet(hash_db, h) = Processed[first].source
                         /\ Cardinality(marked) = 1
                         /\ \A i \in marked : Marked[i] = Processed[first]

\* two files hold a chunk with the same text, unknown to the loaded ledger; both
\* were processed and the batch holds that text once
C6_Witness ==
    /\ pc = "save"
    /\ \E f, g \in RegularFiles :
          /\ f # g
          /\ \E t \in FileTexts(f) \cap FileTexts(g) :
                /\ ~DictHas(Loaded, MD5(t))
                /\ Cardinality({i \in DOMAIN all_docs : all_docs[i].page_content = t}) = 1

\* C7. No step of an ingestion run or of the query service removes or changes
\* a record of the vector store, and an existing collection stays.
C7_RecordsOnlyAdded ==
    [][(records \sqsubseteq records') /\ (collection => collection')]_vars

\* a second run has passed the collection check with records in the store, and
\* a query has been answered
C7_Witness ==
    /\ runs = 2
    /\ pc = "listdir"
    /\ records # EmptyBag
    /\ last.status = 200

\* C8. Query requests are stateless and isolated: a step of an exchange,
\* failing or not, changes nothing but the record of that exchange; a new
\* exchange takes its context from the present store alone (the k nearest
\* records, all of them when fewer) and its prompt from that context and its
\* own question; the generation step keeps question, context and prompt and
\* answers with the question of the exchange.
C8_StatelessQueries ==
    [][last' # last =>
          /\ UNCHANGED <<data_dir, data, edits, disk, collection, records, ingestVars>>
          /\ last'.generation = "pending" =>
                /\ last'.context \sqsubseteq records
                /\ BagCardinality(last'.context)
                      = Min(RetrievalK, BagCardinality(records))
                /\ last'.prompt = Prompt(last'.context, last'.q)
          /\ last'.generation \in {"ok", "error"} =>
                /\ last.generation = "pending"
                /\ last'.q = last.q
                /\ last'.context = last.context
                /\ last'.prompt = last.prompt
          /\ last'.status = 200 => last'.body[2] = last'.q]_vars

\* a request failed in generation, after a retrieval that found records, while
\* the store had grown since that retrieval
C8_Witness ==
    /\ last.status = 500
    /\ last.generation = "error"
    /\ last.context # EmptyBag
    /\ last.context # records

\* C9. When retrieval returns zero chunks the request goes on: the prompt is
\* assembled with an empty context and the exchange proceeds to the language
\* model, which is invoked once; when it answers, the response is 200 with the
\* question and the answer.
C9_EmptyContextProceeds ==
    (last.retrieval = "ok" /\ last.context = EmptyBag) =>
        /\ last.prompt = Prompt(EmptyBag, last.q)
        /\ last.generation # "skipped"
        /\ last.generation = "pending" =>
              last.status = 0 /\ last.calls = <<"retriever">>
        /\ last.generation # "pending" => last.calls = <<"retriever", "llm">>
        /\ last.generation = "ok" =>
              /\ last.status = 200
              /\ \E a \in Answers : last.body = <<"question", last.q, "response", a>>

\* a question was answered with an empty context
C9_Witness ==
    /\ last.retrieval = "ok"
    /\ last.context = EmptyBag
    /\ last.status = 200
    /\ last.q = "hello"

\* C10. The ledger only grows: when a run has ended, however it ended, every
\* entry of the ledger file the run found is still in the ledger file.
C10_LedgerOnlyGrows ==
    pc \in Ended =>
        \A i \in DOMAIN disk0.entries :
           \E j \in DOMAIN disk.entries : disk.entries[j] = disk0.entries[i]

====
